---- MODULE Spec2Model ----
(***************************************************************************)
(* Model of the admin frontend's authentication core:                      *)
(*   - the token store (store/auth-store: hydrate, setTokens, logout),     *)
(*   - the axios request/response interceptors of src/lib/api.ts,          *)
(*   - the AuthProvider gate of src/components/auth/AuthProvider.tsx,      *)
(*   - the OAuth callback handling of the login page (LoginContent),       *)
(* and of its session pages:                                               *)
(*   - EditorPage (app/dashboard/editor/page.tsx): the watched session,    *)
(*     its 5000 ms polling interval, start and end of a session,           *)
(*   - DashboardPage (app/dashboard/page.tsx): the running-servers list.   *)
(* Spec is the authentication core, SpecEditor and SpecDashboard are the   *)
(* two pages, each against the remote orchestrator's sessions.             *)
(* Remote answers are inputs: every response is chosen nondeterministically *)
(* among the answers the remote service can give.                          *)
(***************************************************************************)
EXTENDS Integers, Sequences, FiniteSets, TLC

\* ---------------------------------------------------------------- bounds
\* Number of calls that may be issued through the axios instance in one run.
MaxCalls == 3
\* Number of credential sets the remote issues in one run.
MaxGen == 3

\* number of sessions of the fleet, and of session calls in flight at once
MaxSessions == 2
MaxReqs == 2

\* ---------------------------------------------------------------- errors
\* An axios error: `response` tells whether the remote answered at all (a
\* network failure has no response), `status` is the answer's status code.
NoError == [response |-> FALSE, status |-> -1]
NetworkError == [response |-> FALSE, status |-> 0]
HttpError(status) == [response |-> TRUE, status |-> status]
\* The error statuses the remote answers with in this model.
ErrorStatuses == {401, 500}
Errors == {HttpError(s) : s \in ErrorStatuses} \cup {NetworkError}

\* error.response?.status === 401
IsUnauthorized(error) == error.response /\ error.status = 401

Calls == 1..MaxCalls
Gens == 1..MaxGen

\* UserRole of src/lib/types.ts
UserRole == {"user", "worker", "admin"}

\* ------------------------------------------------------------ credentials
None == <<"none", 0>>
AccessTok(g) == <<"access", g>>
RefreshTok(g) == <<"refresh", g>>
NoUser == [id |-> 0, role |-> "none"]

\* An AuthResponse as the remote issues it: both tokens and the principal.
AuthResponse(g, role) ==
    [accessToken |-> AccessTok(g), refreshToken |-> RefreshTok(g),
     user |-> [id |-> g, role |-> role]]

NoAuthResponse == [accessToken |-> None, refreshToken |-> None, user |-> NoUser]

\* `Bearer ${token}`
Bearer(token) == <<"Bearer", token>>
NoHeader == <<"NoAuthorization", None>>

VARIABLES
    store,      \* the in-memory token store (useAuthStore state)
    persisted,  \* the persisted credential set the store hydrates from
    calls,      \* the axios request configs issued through `api`, by slot
    gen,        \* number of credential sets issued by the remote so far
    gate,       \* AuthProvider: mounted, checking, the effect's dependency
    login,      \* LoginContent: mounted, loading, error
    route,      \* the target of the last router.replace
    hist,       \* observation of the run (history only, never read by actions)
    page,       \* the dashboard page this run loads: "editor", "dashboard" or "none"
    remote,     \* the orchestrator's sessions, by session id
    reqs,       \* the session calls in flight, by slot
    editor,     \* EditorPage: its React state and its polling interval
    dash,       \* DashboardPage: its React state
    watch       \* why the editor's interval was last cleared (history only)

avars == <<store, persisted, calls, gen, gate, login, route, hist>>
svars == <<page, remote, reqs, editor, dash, watch>>
vars == <<store, persisted, calls, gen, gate, login, route, hist,
          page, remote, reqs, editor, dash, watch>>

\* -------------------------------------------------------------- TokenStore
ClearedStore ==
    [accessToken |-> None, refreshToken |-> None, user |-> NoUser,
     isAuthenticated |-> FALSE]

\* setTokens(access, refresh, principal): replace and persist
SetTokens(a, r, u) ==
    [accessToken |-> a, refreshToken |-> r, user |-> u, isAuthenticated |-> TRUE]

PersistOf(a, r, u) == [accessToken |-> a, refreshToken |-> r, user |-> u]

\* logout(): idempotent clear of in-memory and persisted state
Logout == ClearedStore

\* hydrate(): load a previously persisted credential set, no-op if absent
Hydrate(st, p) ==
    IF p = NoAuthResponse THEN st
    ELSE SetTokens(p.accessToken, p.refreshToken, p.user)

\* useAuthStore.setState({ accessToken: token, refreshToken }): shallow merge
SetStatePartial(st, token, refreshToken) ==
    [st EXCEPT !.accessToken = token, !.refreshToken = refreshToken]

\* ---------------------------------------------------------- RequestPipeline
\* An unused slot of the axios instance.
IdleCall ==
    [kind |-> "none", pc |-> "idle", _retry |-> FALSE, hdr |-> NoHeader,
     body |-> None, sends |-> 0, refreshes |-> 0, rtok |-> None, rgen |-> 0,
     err |-> NoError, data |-> NoAuthResponse, sentWith |-> None]

\* Slots are used in order: the next call takes the first idle slot.
FreeSlot(c) ==
    /\ calls[c].pc = "idle"
    /\ \A d \in Calls : d < c => calls[d].pc # "idle"

\* A request interceptor that attaches nothing.
RequestInterceptor_None(hdr, st) == hdr

\* Request interceptor: attach the access token, if any.
RequestInterceptor(hdr, st) ==
    IF st.accessToken # None THEN Bearer(st.accessToken) ELSE hdr

\* api(config): the config passes the request interceptor and is transmitted.
\* sentWith records the store's access token at that moment (observation).
Transmit(cfg, st) ==
    [cfg EXCEPT !.pc = "sent",
                !.hdr = RequestInterceptor(cfg.hdr, st),
                !.sends = cfg.sends + 1,
                !.sentWith = st.accessToken]

\* A call issued by a view: api.get / api.post / ... on a fresh config.
NewCall(kind, body, st) ==
    Transmit([IdleCall EXCEPT !.kind = kind, !.body = body], st)

\* ------------------------------------------------------------------ callers
\* The client-side state a settled call's continuation may change.
World == [store |-> store, persisted |-> persisted, gate |-> gate,
          login |-> login, route |-> route]

\* setTokens / logout applied to the store and to what it persists
DoSetTokens(w, data) ==
    [w EXCEPT !.store = SetTokens(data.accessToken, data.refreshToken, data.user),
              !.persisted = PersistOf(data.accessToken, data.refreshToken, data.user)]

DoLogout(w) == [w EXCEPT !.store = Logout, !.persisted = NoAuthResponse]

\* data.user.role !== 'admin' && data.user.role !== 'worker'
NotPrivileged(role) == role # "admin" /\ role # "worker"

\* setChecking(false): a state update of an unmounted component is dropped
SetCheckingFalse(w) ==
    IF w.gate.phase = "mounted" THEN [w EXCEPT !.gate.checking = FALSE] ELSE w

\* checkAuth without its role check.
CheckAuthThen_NoRoleCheck(w, data) == SetCheckingFalse(DoSetTokens(w, data))

\* checkAuth after `await authApi.refresh(...)` resolved with data
CheckAuthThen(w, data) ==
    IF NotPrivileged(data.user.role)
    THEN SetCheckingFalse([DoLogout(w) EXCEPT !.route = "/login?error=unauthorized"])
    ELSE SetCheckingFalse(DoSetTokens(w, data))

\* The catch block without its logout.
CheckAuthCatch_NoLogout(w) ==
    SetCheckingFalse([w EXCEPT !.route = "/login"])

\* checkAuth's catch block, then finally
CheckAuthCatch(w) ==
    SetCheckingFalse([DoLogout(w) EXCEPT !.route = "/login"])

\* setLoading(false) of LoginContent
SetLoadingFalse(w) ==
    IF w.login.phase = "mounted" THEN [w EXCEPT !.login.loading = FALSE] ELSE w

SetLoginError(w, msg) ==
    IF w.login.phase = "mounted" THEN [w EXCEPT !.login.error = msg] ELSE w

\* The lookup's then-handler without its role test.
GetMeThen_NoRoleCheck(w, data) ==
    SetLoadingFalse([DoSetTokens(w, data) EXCEPT !.route = "/dashboard"])

\* LoginContent: authApi.getMe().then(...)
GetMeThen(w, data) ==
    IF NotPrivileged(data.user.role)
    THEN SetLoadingFalse(DoLogout(SetLoginError(w, "denied")))
    ELSE SetLoadingFalse([DoSetTokens(w, data) EXCEPT !.route = "/dashboard"])

\* LoginContent: authApi.getMe().catch(...)
GetMeCatch(w) == SetLoadingFalse(DoLogout(SetLoginError(w, "failed")))

\* The promise of a call is fulfilled: its caller's continuation runs.
OnFulfilled(kind, w, data) ==
    CASE kind = "gate" -> CheckAuthThen(w, data)
      [] kind = "me" -> GetMeThen(w, data)
      [] OTHER -> w

\* The promise of a call is rejected: its caller's continuation runs.
OnRejected(kind, w) ==
    CASE kind = "gate" -> CheckAuthCatch(w)
      [] kind = "me" -> GetMeCatch(w)
      [] OTHER -> w

Apply(w) ==
    /\ store' = w.store
    /\ persisted' = w.persisted
    /\ gate' = w.gate
    /\ login' = w.login
    /\ route' = w.route

\* React re-renders AuthProvider synchronously after a store change; while the
\* effect's dependency differs from the store's refresh token, the effect
\* re-run is the next thing that happens.
RerenderPending ==
    gate.phase = "mounted" /\ gate.dep # store.refreshToken

\* ------------------------------------------------------------- session data
\* SessionStatus of lib/types.ts, and 'recyclable' of the sessions page
SessionStatus ==
    {"queued", "pending", "provisioning", "ready", "active", "ending", "ended",
     "failed", "recyclable"}
Terminal == {"ended", "failed"}

\* The statuses from which the remote has completed provisioning: the session
\* has its endpoint from 'ready' on.
Provisioned == {"ready", "active", "ending", "recyclable", "ended"}

\* The orchestrator's state graph.
Edges ==
    {<<"queued", "pending">>, <<"pending", "provisioning">>,
     <<"provisioning", "ready">>, <<"ready", "active">>, <<"active", "ending">>,
     <<"ending", "ended">>, <<"pending", "failed">>, <<"provisioning", "failed">>,
     <<"ready", "recyclable">>, <<"active", "recyclable">>,
     <<"recyclable", "ended">>}

Succ(S) == S \cup {e[2] : e \in {d \in Edges : d[1] \in S}}

RECURSIVE Closure(_)
Closure(S) == IF Succ(S) = S THEN S ELSE Closure(Succ(S))

\* status b is status a or lies ahead of it on the graph
Reach(a, b) == b \in Closure({a})

Ids == 1..MaxSessions
Reqs == 1..MaxReqs
QueuePositions == {1, 2}

\* setInterval(loadActiveSession, 5000)
PollIntervalMs == 5000

\* A Session as the remote reports it; queuePosition 0 and serverIp FALSE
\* stand for an absent field.
Session(id, r) ==
    [id |-> id, status |-> r.status, isActive |-> r.status \notin Terminal,
     queuePosition |-> r.queuePosition, serverIp |-> r.status \in Provisioned]

\* null
NoSession ==
    [id |-> 0, status |-> "none", isActive |-> FALSE, queuePosition |-> 0,
     serverIp |-> FALSE]

NoRemote == [status |-> "none", queuePosition |-> 0]

\* What the remote says when it rejects POST /admin/sessions/editor
\* (error.response.data.message).
RemoteMessages == {"Usage quota exceeded", "You already have an active session"}

IdleReq ==
    [kind |-> "none", pc |-> "idle", arg |-> 0, ok |-> FALSE, data |-> NoSession,
     list |-> {}, message |-> "none"]

FreeReq(r) ==
    /\ reqs[r].pc = "idle"
    /\ \A q \in Reqs : q < r => reqs[q].pc # "idle"

SendReq(r, kind, arg) ==
    reqs' = [reqs EXCEPT ![r] = [IdleReq EXCEPT !.kind = kind, !.pc = "sent", !.arg = arg]]

\* EditorPage before its first render.  `timer` is the interval the polling
\* effect holds for its cleanup, `intervals` the number of intervals alive in
\* the window, `toast` what the step just taken put on screen.
EditorInit ==
    [phase |-> "init", loading |-> TRUE, session |-> NoSession, starting |-> FALSE,
     ending |-> FALSE, timer |-> 0, selectedCollectionId |-> FALSE,
     toast |-> "none", intervals |-> 0]

\* After a step that puts nothing on screen no toast is new.
Quiet(e) == [e EXCEPT !.toast = "none"]

\* toast.error / toast.success
Toast(e, text) == [e EXCEPT !.toast = text]

DashInit ==
    [phase |-> "init", loading |-> TRUE, runningSessions |-> {}, endingSession |-> 0]

\* No dashboard page is loaded.
NoPages ==
    /\ page = "none"
    /\ remote = [i \in Ids |-> NoRemote]
    /\ reqs = [r \in Reqs |-> IdleReq]
    /\ editor = EditorInit
    /\ dash = DashInit
    /\ watch = "never"

\* ------------------------------------------------------------------ actions
Init ==
    /\ store = ClearedStore
    /\ persisted \in {NoAuthResponse} \cup {AuthResponse(1, r) : r \in UserRole}
    /\ calls = [c \in Calls |-> IdleCall]
    /\ gen = 1
    /\ gate = [phase |-> "init", checking |-> TRUE, dep |-> None]
    /\ login = [phase |-> "init", loading |-> FALSE, error |-> "none"]
    /\ route = "none"
    /\ hist = [accepted |-> FALSE, forced |-> FALSE]
    /\ NoPages

\* A view issues a call.  Views exist once a page has mounted, and a page's
\* first effect hydrates the store.
Dispatch(c) ==
    /\ ~RerenderPending
    /\ gate.phase # "init" \/ login.phase # "init"
    /\ FreeSlot(c)
    /\ calls' = [calls EXCEPT ![c] = NewCall("view", None, store)]
    /\ UNCHANGED <<store, persisted, gen, gate, login, route, hist>>
    /\ UNCHANGED svars

\* The remote answers a transmitted call with success.  /auth/refresh issues
\* a new credential set; /auth/me answers for the bearer of the request.
RespondOK(c, role) ==
    /\ ~RerenderPending
    /\ calls[c].pc = "sent"
    /\ LET k == calls[c].kind
           data == CASE k = "gate" -> AuthResponse(gen + 1, role)
                     [] k = "me" -> AuthResponse(calls[c].hdr[2][2], role)
                     [] OTHER -> NoAuthResponse
       IN /\ k = "gate" => gen < MaxGen
          /\ k = "me" => calls[c].hdr # NoHeader
          /\ k = "view" => role = "user"
          /\ gen' = IF k = "gate" THEN gen + 1 ELSE gen
          /\ calls' = [calls EXCEPT ![c] = [@ EXCEPT !.pc = "resolved", !.data = data]]
          /\ Apply(OnFulfilled(k, World, data))
          /\ hist' = IF k = "view" THEN hist
                     ELSE [hist EXCEPT !.accepted = TRUE,
                                       !.forced = @ /\ NotPrivileged(role)]
    /\ UNCHANGED svars

\* A rejection that logs out on every final 401.
Reject_Logout(c, cfg, error, w) ==
    /\ calls' = [calls EXCEPT ![c] = [cfg EXCEPT !.pc = "rejected", !.err = error]]
    /\ Apply(OnRejected(cfg.kind, IF IsUnauthorized(error) THEN DoLogout(w) ELSE w))

\* Promise.reject(error) out of the response interceptor
Reject(c, cfg, error, w) ==
    /\ calls' = [calls EXCEPT ![c] = [cfg EXCEPT !.pc = "rejected", !.err = error]]
    /\ Apply(OnRejected(cfg.kind, w))

\* The error branch with a shared refresh: a 401 arriving while another call's
\* exchange is in flight starts none of its own.
ResponseError_SingleFlight(c, error) ==
    LET originalRequest == calls[c] IN
    IF IsUnauthorized(error) /\ ~originalRequest._retry
    THEN LET marked == [originalRequest EXCEPT !._retry = TRUE]
             refreshToken == store.refreshToken
         IN IF refreshToken # None /\ \A d \in Calls : calls[d].pc # "refreshing"
            THEN /\ calls' = [calls EXCEPT ![c] =
                                [marked EXCEPT !.pc = "refreshing",
                                               !.err = error,
                                               !.rtok = refreshToken,
                                               !.refreshes = @ + 1]]
                 /\ UNCHANGED <<store, persisted, gate, login, route>>
            ELSE Reject(c, marked, error, World)
    ELSE Reject(c, originalRequest, error, World)

\* The error branch without the status test: every answered error refreshes.
ResponseError_AnyStatus(c, error) ==
    LET originalRequest == calls[c] IN
    IF error.response /\ ~originalRequest._retry
    THEN LET marked == [originalRequest EXCEPT !._retry = TRUE]
             refreshToken == store.refreshToken
         IN IF refreshToken # None
            THEN /\ calls' = [calls EXCEPT ![c] =
                                [marked EXCEPT !.pc = "refreshing",
                                               !.err = error,
                                               !.rtok = refreshToken,
                                               !.refreshes = @ + 1]]
                 /\ UNCHANGED <<store, persisted, gate, login, route>>
            ELSE Reject(c, marked, error, World)
    ELSE Reject(c, originalRequest, error, World)

\* The error branch without the retried marker: every 401 starts a refresh.
ResponseError_NoMarker(c, error) ==
    LET originalRequest == calls[c] IN
    IF IsUnauthorized(error) /\ store.refreshToken # None
    THEN /\ calls' = [calls EXCEPT ![c] =
                        [originalRequest EXCEPT !.pc = "refreshing",
                                                !.err = error,
                                                !.rtok = store.refreshToken,
                                                !.refreshes = @ + 1]]
         /\ UNCHANGED <<store, persisted, gate, login, route>>
    ELSE Reject(c, originalRequest, error, World)

\* Response interceptor, error branch, up to the first await.
ResponseError(c, error) ==
    LET originalRequest == calls[c] IN
    IF IsUnauthorized(error) /\ ~originalRequest._retry
    THEN LET marked == [originalRequest EXCEPT !._retry = TRUE]
             refreshToken == store.refreshToken
         IN IF refreshToken # None
            THEN /\ calls' = [calls EXCEPT ![c] =
                                [marked EXCEPT !.pc = "refreshing",
                                               !.err = error,
                                               !.rtok = refreshToken,
                                               !.refreshes = @ + 1]]
                 /\ UNCHANGED <<store, persisted, gate, login, route>>
            ELSE Reject(c, marked, error, World)
    ELSE Reject(c, originalRequest, error, World)

\* The remote answers a transmitted call with an error, or not at all.
RespondError(c, error) ==
    /\ ~RerenderPending
    /\ calls[c].pc = "sent"
    /\ ResponseError(c, error)
    /\ UNCHANGED <<gen, hist>>
    /\ UNCHANGED svars

\* The success branch without the commit: the new set is never stored, and the
\* request interceptor re-attaches the store's old access token.
RefreshOK_NoCommit(c, role) ==
    /\ ~RerenderPending
    /\ calls[c].pc = "refreshing"
    /\ gen < MaxGen
    /\ LET authData == AuthResponse(gen + 1, role)
           originalRequest == [calls[c] EXCEPT !.hdr = Bearer(authData.accessToken),
                                               !.rgen = gen + 1]
       IN /\ gen' = gen + 1
          /\ calls' = [calls EXCEPT ![c] = Transmit(originalRequest, store)]
          /\ Apply(World)
          /\ hist' = [hist EXCEPT !.accepted = TRUE]
    /\ UNCHANGED svars

\* The interceptor's refresh exchange succeeded: commit, re-attach, re-issue.
RefreshOK(c, role) ==
    /\ ~RerenderPending
    /\ calls[c].pc = "refreshing"
    /\ gen < MaxGen
    /\ LET authData == AuthResponse(gen + 1, role)
           w == DoSetTokens(World, authData)
           originalRequest == [calls[c] EXCEPT !.hdr = Bearer(authData.accessToken),
                                               !.rgen = gen + 1]
       IN /\ gen' = gen + 1
          /\ calls' = [calls EXCEPT ![c] = Transmit(originalRequest, w.store)]
          /\ Apply(w)
          /\ hist' = [hist EXCEPT !.accepted = TRUE]
    /\ UNCHANGED svars

\* The failure branch without its logout.
RefreshFail_NoLogout(c) ==
    /\ ~RerenderPending
    /\ calls[c].pc = "refreshing"
    /\ Reject(c, calls[c], calls[c].err, World)
    /\ gen' = gen
    /\ hist' = [hist EXCEPT !.forced = TRUE]
    /\ UNCHANGED svars

\* The interceptor's refresh exchange failed: logout, reject the original error.
RefreshFail(c) ==
    /\ ~RerenderPending
    /\ calls[c].pc = "refreshing"
    /\ Reject(c, calls[c], calls[c].err, DoLogout(World))
    /\ gen' = gen
    /\ hist' = [hist EXCEPT !.forced = TRUE]
    /\ UNCHANGED svars

\* checkAuth whose no-token branch issues the exchange all the same.
CheckAuthStart_NoTokenCheck(c, w) ==
    /\ FreeSlot(c)
    /\ calls' = [calls EXCEPT ![c] = NewCall("gate", w.store.refreshToken, w.store)]
    /\ Apply(w)

\* checkAuth up to its first await.  Without a stored refresh token it ends
\* at once; otherwise authApi.refresh(storedRefreshToken) goes out on slot c.
CheckAuthStart(c, w) ==
    LET storedRefreshToken == w.store.refreshToken IN
    IF storedRefreshToken = None
    THEN /\ Apply([SetCheckingFalse(w) EXCEPT !.route = "/login"])
         /\ calls' = calls
    ELSE /\ FreeSlot(c)
         /\ calls' = [calls EXCEPT ![c] = NewCall("gate", storedRefreshToken, w.store)]
         /\ Apply(w)

\* AuthProvider mounts (a page load of the dashboard, or the navigation that
\* follows a login): first render, then the hydrate effect and the checkAuth
\* effect run in order.
GateMount(c) ==
    /\ gate.phase = "init"
    /\ login.phase = "init" \/ route = "/dashboard"
    /\ LET w == [World EXCEPT
                   !.gate = [phase |-> "mounted", checking |-> TRUE,
                             dep |-> store.refreshToken],
                   !.login = IF login.phase = "mounted"
                             THEN [login EXCEPT !.phase = "unmounted"] ELSE login,
                   !.store = Hydrate(store, persisted)]
       IN CheckAuthStart(c, w)
    /\ UNCHANGED <<gen, hist>>
    /\ UNCHANGED svars

\* The refresh token the component rendered with changed: the checkAuth effect
\* runs again.
GateRerun(c) ==
    /\ RerenderPending
    /\ CheckAuthStart(c, [World EXCEPT !.gate.dep = store.refreshToken])
    /\ UNCHANGED <<gen, hist>>
    /\ UNCHANGED svars

\* The navigation requested by router.replace('/login...') completes.
GateUnmount ==
    /\ ~RerenderPending
    /\ gate.phase = "mounted"
    /\ route \in {"/login", "/login?error=unauthorized"}
    /\ gate' = [gate EXCEPT !.phase = "unmounted"]
    /\ UNCHANGED <<store, persisted, calls, gen, login, route, hist>>
    /\ UNCHANGED svars

\* The login page loads with the OAuth callback's token and refreshToken: the
\* hydrate effect, then the callback effect up to authApi.getMe() on slot c.
LoginCallback(c) ==
    /\ login.phase = "init"
    /\ gate.phase = "init"
    /\ gen < MaxGen
    /\ FreeSlot(c)
    /\ LET token == AccessTok(gen + 1)
           refreshToken == RefreshTok(gen + 1)
           st == SetStatePartial(Hydrate(store, persisted), token, refreshToken)
       IN /\ store' = st
          /\ calls' = [calls EXCEPT ![c] = NewCall("me", None, st)]
    /\ login' = [phase |-> "mounted", loading |-> TRUE, error |-> "none"]
    /\ gen' = gen + 1
    /\ UNCHANGED <<persisted, gate, route, hist>>
    /\ UNCHANGED svars

Next ==
    \/ \E c \in Calls : Dispatch(c)
    \/ \E c \in Calls, role \in UserRole : RespondOK(c, role)
    \/ \E c \in Calls, error \in Errors : RespondError(c, error)
    \/ \E c \in Calls, role \in UserRole : RefreshOK(c, role)
    \/ \E c \in Calls : RefreshFail(c)
    \/ \E c \in Calls : GateMount(c)
    \/ \E c \in Calls : GateRerun(c)
    \/ GateUnmount
    \/ \E c \in Calls : LoginCallback(c)

Spec == Init /\ [][Next]_vars

\* AuthProvider renders its children.
Rendered == gate.phase = "mounted" /\ ~gate.checking /\ store.isAuthenticated

TypeOK ==
    /\ gen \in 1..MaxGen
    /\ \A c \in Calls : calls[c].pc \in {"idle", "sent", "refreshing", "resolved", "rejected"}

\* ------------------------------------------------------------- the remote
\* What GET /admin/sessions/active answers for the caller's session r: the
\* caller's non-terminal session, or none; a session that has reached a
\* terminal status is reported as none or as the terminal session.
ActiveAnswers(r) ==
    IF r.status = "none" THEN {NoSession}
    ELSE IF r.status \in Terminal THEN {NoSession, Session(1, r)}
    ELSE {Session(1, r)}

\* What GET /admin/sessions/running answers: all non-terminal sessions.
RunningAnswer ==
    {Session(i, remote[i]) : i \in {j \in Ids : remote[j].status \in SessionStatus \ Terminal}}

\* The status a termination request moves a session to.
EndTarget(status) ==
    IF status \in Terminal \cup {"none"} THEN status
    ELSE IF Reach(status, "ending") THEN "ending" ELSE "ended"

Answered(r, ok, data, list) ==
    reqs' = [reqs EXCEPT ![r] = [@ EXCEPT !.pc = "answered", !.ok = ok,
                                          !.data = data, !.list = list]]

AnswerGetActive(r) ==
    /\ reqs[r].pc = "sent"
    /\ reqs[r].kind = "getActive"
    /\ \E data \in ActiveAnswers(remote[1]) : Answered(r, TRUE, data, {})
    /\ editor' = Quiet(editor)
    /\ UNCHANGED <<page, remote, dash, watch>>
    /\ UNCHANGED avars

\* POST /admin/sessions/editor: the caller's session is created queued or
\* pending.
AnswerCreateEditor(r) ==
    /\ reqs[r].pc = "sent"
    /\ reqs[r].kind = "createEditor"
    /\ remote[1].status = "none"
    /\ \E created \in {[status |-> "pending", queuePosition |-> 0]}
                      \cup {[status |-> "queued", queuePosition |-> q] : q \in QueuePositions} :
        /\ remote' = [remote EXCEPT ![1] = created]
        /\ Answered(r, TRUE, Session(1, created), {})
    /\ editor' = Quiet(editor)
    /\ UNCHANGED <<page, dash, watch>>
    /\ UNCHANGED avars

\* POST /admin/sessions/:id/end: termination is requested, the answer is an
\* acknowledgement.
AnswerEnd(r) ==
    /\ reqs[r].pc = "sent"
    /\ reqs[r].kind = "end"
    /\ LET id == reqs[r].arg IN
       remote' = [remote EXCEPT ![id].status = EndTarget(@)]
    /\ Answered(r, TRUE, NoSession, {})
    /\ editor' = Quiet(editor)
    /\ UNCHANGED <<page, dash, watch>>
    /\ UNCHANGED avars

\* loadStats of the dashboard: Promise.all of the stats call and of
\* getRunning().catch(() => []).
AnswerLoadStats(r, statsOk, runningOk) ==
    /\ reqs[r].pc = "sent"
    /\ reqs[r].kind = "loadStats"
    /\ Answered(r, statsOk, NoSession, IF runningOk THEN RunningAnswer ELSE {})
    /\ UNCHANGED <<page, remote, editor, dash, watch>>
    /\ UNCHANGED avars

\* A session call fails: no answer, a server fault, or the remote's rejection
\* with a message.  Only the start handler reads the message.
AnswerError(r, message) ==
    /\ reqs[r].pc = "sent"
    /\ reqs[r].kind \in {"getActive", "createEditor", "end"}
    /\ message # "none" => reqs[r].kind = "createEditor"
    /\ reqs' = [reqs EXCEPT ![r] = [@ EXCEPT !.pc = "answered", !.ok = FALSE,
                                          !.message = message]]
    /\ editor' = Quiet(editor)
    /\ UNCHANGED <<page, remote, dash, watch>>
    /\ UNCHANGED avars

\* The orchestrator moves session i along an edge of its graph; the queue
\* position it reported while queued is dropped or left behind.
RemoteAdvance(i, keep) ==
    /\ \E e \in Edges :
        /\ e[1] = remote[i].status
        /\ remote' = [remote EXCEPT ![i] =
                        [status |-> e[2],
                         queuePosition |-> IF keep THEN @.queuePosition ELSE 0]]
    /\ remote[i].queuePosition = 0 => keep
    /\ editor' = Quiet(editor)
    /\ UNCHANGED <<page, reqs, dash, watch>>
    /\ UNCHANGED avars

\* ------------------------------------------------------------ EditorPage
\* The polling effect without clearInterval in its cleanup.
PollEffect_NoClear(e) ==
    LET watching == e.phase = "mounted" /\ e.session.isActive IN
    IF watching = (e.timer # 0) THEN e
    ELSE IF watching
         THEN [e EXCEPT !.timer = PollIntervalMs, !.intervals = @ + 1]
         ELSE [e EXCEPT !.timer = 0]

\* The polling effect, keyed on session?.isActive.  When the key changes the
\* previous run's cleanup clears its interval, and the new run sets an
\* interval of 5000 ms if the mounted page holds an active session.
PollEffect(e) ==
    LET watching == e.phase = "mounted" /\ e.session.isActive IN
    IF watching = (e.timer # 0) THEN e
    ELSE IF watching
         THEN [e EXCEPT !.timer = PollIntervalMs, !.intervals = @ + 1]
         ELSE [e EXCEPT !.timer = 0, !.intervals = @ - 1]

\* A state update of EditorPage, followed by its effects; `cause` is recorded
\* when the update clears the interval.
Render(e, cause) ==
    /\ editor' = PollEffect(e)
    /\ watch' = IF PollEffect(e).timer # 0 THEN "on"
                ELSE IF editor.timer # 0 THEN cause ELSE watch

\* loadActiveSession: setSession(data)
LoadActiveSessionThen(e, data) == [e EXCEPT !.session = data]

\* loadActiveSession's catch with a setSession(null).
LoadActiveSessionCatch_Reset(e) == [e EXCEPT !.session = NoSession]

\* loadActiveSession's catch: console.error only
LoadActiveSessionCatch(e) == e

\* handleStartSession after `await adminSessionsApi.createEditor(...)`
StartSessionThen(e, newSession) ==
    Toast([e EXCEPT !.session = newSession, !.starting = FALSE], "Editor session started")

\* The start handler's catch with a fixed text.
StartSessionCatch_Generic(e, message) ==
    Toast([e EXCEPT !.starting = FALSE], "Failed to start editor session")

\* toast.error(error.response?.data?.message || 'Failed to start editor session')
StartSessionCatch(e, message) ==
    Toast([e EXCEPT !.starting = FALSE],
          IF message # "none" THEN message ELSE "Failed to start editor session")

\* handleEndSession after `await adminSessionsApi.end(session.id)`
EndSessionThen(e) ==
    Toast([e EXCEPT !.session = NoSession, !.ending = FALSE], "Session ended")

EndSessionCatch(e) == Toast([e EXCEPT !.ending = FALSE], "Failed to end session")

\* The page shows the active session instead of the start form.
ActivePanel(e) == e.phase = "mounted" /\ ~e.loading /\ e.session.isActive

\* {session.queuePosition && (...)}
QueueIndicator(e) == ActivePanel(e) /\ e.session.queuePosition # 0

\* {(session.status === 'ready' || session.status === 'active') && session.serverIp && (...)}
ConnectionDetails(e) ==
    /\ ActivePanel(e)
    /\ e.session.status = "ready" \/ e.session.status = "active"
    /\ e.session.serverIp

\* The page mounts: loadCollections() and loadActiveSession() go out.
EditorMount(r) ==
    /\ page = "editor"
    /\ editor.phase = "init"
    /\ FreeReq(r)
    /\ SendReq(r, "getActive", 0)
    /\ Render([Quiet(editor) EXCEPT !.phase = "mounted"], watch)
    /\ UNCHANGED <<page, remote, dash>>
    /\ UNCHANGED avars

\* loadCollections settles: setCollections, on failure a toast and an empty
\* list, setLoading(false) in its finally; the auto-select effect then selects
\* the first collection of the map if the map has one.
CollectionsLoaded(ok, some) ==
    /\ editor.phase = "mounted"
    /\ editor.loading
    /\ ~ok => ~some
    /\ LET e == [Quiet(editor) EXCEPT !.loading = FALSE, !.selectedCollectionId = some]
       IN Render(IF ok THEN e ELSE Toast(e, "Failed to load collections"), watch)
    /\ UNCHANGED <<page, remote, reqs, dash>>
    /\ UNCHANGED avars

\* The interval fires: loadActiveSession() goes out, whatever is in flight.
Tick(r) ==
    /\ editor.intervals > 0
    /\ FreeReq(r)
    /\ SendReq(r, "getActive", 0)
    /\ editor' = Quiet(editor)
    /\ UNCHANGED <<page, remote, dash, watch>>
    /\ UNCHANGED avars

\* The start handler without its check of the selected collection.
HandleStartSession_NoValidation(r) ==
    /\ editor.phase = "mounted"
    /\ ~editor.loading
    /\ ~editor.session.isActive
    /\ ~editor.starting
    /\ FreeReq(r)
    /\ SendReq(r, "createEditor", 0)
    /\ Render([Quiet(editor) EXCEPT !.starting = TRUE], watch)
    /\ UNCHANGED <<page, remote, dash>>
    /\ UNCHANGED avars

\* handleStartSession is invoked on the start form: without a selected
\* collection it tells the user and returns, otherwise createEditor goes out.
\* (The button that invokes it is disabled while starting.)
HandleStartSession(r) ==
    /\ editor.phase = "mounted"
    /\ ~editor.loading
    /\ ~editor.session.isActive
    /\ ~editor.starting
    /\ IF ~editor.selectedCollectionId
       THEN /\ Render(Toast(editor, "Please select a collection"), watch)
            /\ reqs' = reqs
       ELSE /\ FreeReq(r)
            /\ SendReq(r, "createEditor", 0)
            /\ Render([Quiet(editor) EXCEPT !.starting = TRUE], watch)
    /\ UNCHANGED <<page, remote, dash>>
    /\ UNCHANGED avars

\* A click on `End Session`.
HandleEndSession(r) ==
    /\ ActivePanel(editor)
    /\ ~editor.ending
    /\ FreeReq(r)
    /\ SendReq(r, "end", editor.session.id)
    /\ Render([Quiet(editor) EXCEPT !.ending = TRUE], watch)
    /\ UNCHANGED <<page, remote, dash>>
    /\ UNCHANGED avars

\* The user leaves the page: the effect's cleanup clears the interval.
EditorUnmount ==
    /\ editor.phase = "mounted"
    /\ Render([EditorInit EXCEPT !.phase = "unmounted", !.timer = editor.timer,
                                  !.intervals = editor.intervals], "left")
    /\ UNCHANGED <<page, remote, reqs, dash>>
    /\ UNCHANGED avars

\* The continuation of the editor's call of kind k.
EditorContinue(e, k, ok, data, message) ==
    CASE k = "getActive" -> IF ok THEN LoadActiveSessionThen(e, data)
                            ELSE LoadActiveSessionCatch(e)
      [] k = "createEditor" -> IF ok THEN StartSessionThen(e, data)
                               ELSE StartSessionCatch(e, message)
      [] k = "end" -> IF ok THEN EndSessionThen(e) ELSE EndSessionCatch(e)
      [] OTHER -> e

\* An answer reaches the editor page; answers arrive in any order.  A state
\* update of an unmounted component is dropped, the handler's toast is not.
EditorDeliver(r) ==
    /\ page = "editor"
    /\ reqs[r].pc = "answered"
    /\ reqs' = [reqs EXCEPT ![r] = IdleReq]
    /\ IF editor.phase = "mounted"
       THEN Render(EditorContinue(Quiet(editor), reqs[r].kind, reqs[r].ok,
                                  reqs[r].data, reqs[r].message),
                   IF reqs[r].kind = "end" THEN "ended" ELSE "terminal")
       ELSE /\ editor' = Toast(editor, EditorContinue(Quiet(editor), reqs[r].kind, reqs[r].ok,
                                                     reqs[r].data, reqs[r].message).toast)
            /\ watch' = watch
    /\ UNCHANGED <<page, remote, dash>>
    /\ UNCHANGED avars

\* --------------------------------------------------------- DashboardPage
\* loadStats after Promise.all resolved: setStats, setRunningSessions
LoadStatsThen(d, sessions) == [d EXCEPT !.runningSessions = sessions, !.loading = FALSE]

\* loadStats' catch (a toast), then finally
LoadStatsCatch(d) == [d EXCEPT !.loading = FALSE]

\* handleEndSession after `await adminSessionsApi.end(sessionId)`
DashEndThen(d, sessionId) ==
    [d EXCEPT !.runningSessions = {s \in @ : s.id # sessionId}, !.endingSession = 0]

DashEndCatch(d) == [d EXCEPT !.endingSession = 0]

\* The running-servers list is on screen.
ListShown(d) == d.phase = "mounted" /\ ~d.loading

\* {session.serverIp && (<span>{session.serverIp}:{session.serverPort}</span>)}
RunningAddress(d, s) == ListShown(d) /\ s \in d.runningSessions /\ s.serverIp

\* The page mounts: loadStats() goes out.
DashMount(r) ==
    /\ page = "dashboard"
    /\ dash.phase = "init"
    /\ FreeReq(r)
    /\ SendReq(r, "loadStats", 0)
    /\ dash' = [dash EXCEPT !.phase = "mounted"]
    /\ UNCHANGED <<page, remote, editor, watch>>
    /\ UNCHANGED avars

\* A click on the End button of a listed session; the button is disabled for
\* the session named by endingSession.
DashHandleEndSession(sessionId, r) ==
    /\ ListShown(dash)
    /\ \E s \in dash.runningSessions : s.id = sessionId
    /\ dash.endingSession # sessionId
    /\ FreeReq(r)
    /\ SendReq(r, "end", sessionId)
    /\ dash' = [dash EXCEPT !.endingSession = sessionId]
    /\ UNCHANGED <<page, remote, editor, watch>>
    /\ UNCHANGED avars

DashContinue(d, k, ok, arg, list) ==
    CASE k = "loadStats" -> IF ok THEN LoadStatsThen(d, list) ELSE LoadStatsCatch(d)
      [] k = "end" -> IF ok THEN DashEndThen(d, arg) ELSE DashEndCatch(d)
      [] OTHER -> d

\* An answer reaches the dashboard page.
DashDeliver(r) ==
    /\ page = "dashboard"
    /\ reqs[r].pc = "answered"
    /\ reqs' = [reqs EXCEPT ![r] = IdleReq]
    /\ dash' = DashContinue(dash, reqs[r].kind, reqs[r].ok, reqs[r].arg, reqs[r].list)
    /\ UNCHANGED <<page, remote, editor, watch>>
    /\ UNCHANGED avars

\* ------------------------------------------------- the session specification
\* A signed-in admin, AuthProvider rendering its children.
SignedIn ==
    /\ store = SetTokens(AccessTok(1), RefreshTok(1), AuthResponse(1, "admin").user)
    /\ persisted = AuthResponse(1, "admin")
    /\ calls = [c \in Calls |-> IdleCall]
    /\ gen = 1
    /\ gate = [phase |-> "mounted", checking |-> FALSE, dep |-> RefreshTok(1)]
    /\ login = [phase |-> "init", loading |-> FALSE, error |-> "none"]
    /\ route = "none"
    /\ hist = [accepted |-> TRUE, forced |-> FALSE]

\* The editor page loads.  It deals with the caller's own session (id 1),
\* which the remote may already hold.
InitEditor ==
    /\ SignedIn
    /\ page = "editor"
    /\ remote \in {[i \in Ids |-> IF i = 1 THEN own ELSE NoRemote] :
                    own \in {NoRemote, [status |-> "queued", queuePosition |-> 1],
                             [status |-> "active", queuePosition |-> 0]}}
    /\ reqs = [r \in Reqs |-> IdleReq]
    /\ editor = EditorInit
    /\ dash = DashInit
    /\ watch = "never"

NextEditor ==
    \/ \E r \in Reqs : AnswerGetActive(r)
    \/ \E r \in Reqs : AnswerCreateEditor(r)
    \/ \E r \in Reqs : AnswerEnd(r)
    \/ \E r \in Reqs, message \in {"none"} \cup RemoteMessages : AnswerError(r, message)
    \/ \E i \in Ids, keep \in BOOLEAN : RemoteAdvance(i, keep)
    \/ \E r \in Reqs : EditorMount(r)
    \/ \E ok \in BOOLEAN, some \in BOOLEAN : CollectionsLoaded(ok, some)
    \/ \E r \in Reqs : Tick(r)
    \/ \E r \in Reqs : HandleStartSession(r)
    \/ \E r \in Reqs : HandleEndSession(r)
    \/ EditorUnmount
    \/ \E r \in Reqs : EditorDeliver(r)

SpecEditor == InitEditor /\ [][NextEditor]_vars

\* The dashboard page loads.  It lists the fleet's running sessions.
InitDashboard ==
    /\ SignedIn
    /\ page = "dashboard"
    /\ remote \in [Ids -> {NoRemote, [status |-> "active", queuePosition |-> 0]}]
    /\ reqs = [r \in Reqs |-> IdleReq]
    /\ editor = EditorInit
    /\ dash = DashInit
    /\ watch = "never"

NextDashboard ==
    \/ \E r \in Reqs : AnswerEnd(r)
    \/ \E r \in Reqs, statsOk \in BOOLEAN, runningOk \in BOOLEAN :
           AnswerLoadStats(r, statsOk, runningOk)
    \/ \E r \in Reqs, message \in {"none"} \cup RemoteMessages : AnswerError(r, message)
    \/ \E i \in Ids, keep \in BOOLEAN : RemoteAdvance(i, keep)
    \/ \E r \in Reqs : DashMount(r)
    \/ \E i \in Ids, r \in Reqs : DashHandleEndSession(i, r)
    \/ \E r \in Reqs : DashDeliver(r)

SpecDashboard == InitDashboard /\ [][NextDashboard]_vars

SessionTypeOK ==
    /\ editor.timer \in {0, PollIntervalMs}
    /\ editor.intervals \in {0, 1}
    /\ editor.selectedCollectionId \in BOOLEAN
    /\ \A r \in Reqs : reqs[r].message \in {"none"} \cup RemoteMessages
    /\ watch \in {"never", "on", "terminal", "ended", "left"}
    /\ \A r \in Reqs : reqs[r].pc \in {"idle", "sent", "answered"}
    /\ \A i \in Ids : remote[i].status \in SessionStatus \cup {"none"}

\* ------------------------------------------------------- steps of one call
\* The step in which a not-yet-retried call c receives a 401.
First401(c) ==
    /\ calls[c].pc = "sent"
    /\ ~calls[c]._retry
    /\ calls'[c].pc # "sent"
    /\ IsUnauthorized(calls'[c].err)

\* The step in which the remote accepts the refresh exchange made for call c.
RefreshAccepted(c) ==
    /\ calls[c].pc = "refreshing"
    /\ calls'[c] # calls[c]
    /\ gen' # gen

\* The step in which the refresh exchange made for call c fails.
RefreshRejected(c) ==
    /\ calls[c].pc = "refreshing"
    /\ calls'[c] # calls[c]
    /\ gen' = gen

\* The step in which a call already carrying the retried marker gets an error.
RetriedFails(c) ==
    /\ calls[c].pc = "sent"
    /\ calls[c]._retry
    /\ calls'[c].pc \notin {"sent", "resolved"}

\* The store holds exactly the credential set of generation g.
HoldsSet(st, g) ==
    /\ st.accessToken = AccessTok(g)
    /\ st.refreshToken = RefreshTok(g)
    /\ st.user.id = g
    /\ st.isAuthenticated

\* ------------------------------------------------------------------ claims

\* (C1, first step) a first 401 with a refresh token in the store starts one
\* exchange with that token and transmits nothing yet.
C1_Exchange ==
    \A c \in Calls :
        First401(c) /\ store.refreshToken # None =>
            /\ calls'[c].pc = "refreshing"
            /\ calls'[c].refreshes = 1
            /\ calls'[c].rtok = store.refreshToken
            /\ calls'[c].sends = 1

\* (C1, second step) an accepted exchange commits the returned set to the store
\* and to what it persists, and re-issues the call with the returned token.
C1_Commit ==
    \A c \in Calls :
        RefreshAccepted(c) =>
            /\ calls'[c].rgen = gen'
            /\ HoldsSet(store', gen')
            /\ persisted' = PersistOf(store'.accessToken, store'.refreshToken, store'.user)
            /\ calls'[c].pc = "sent"
            /\ calls'[c].sends = calls[c].sends + 1
            /\ calls'[c].hdr = Bearer(AccessTok(gen'))

\* (C1, count) a call whose exchange was accepted has made exactly one exchange
\* and exactly two transmissions, the second with the returned access token.
C1_Once ==
    \A c \in Calls :
        calls[c].rgen # 0 =>
            /\ calls[c].refreshes = 1
            /\ calls[c].sends = 2
            /\ calls[c].hdr = Bearer(AccessTok(calls[c].rgen))

\* C1: a not-yet-retried call that fails with 401 while the store holds a
\* refresh token issues exactly one refresh exchange with that token; when the
\* remote accepts it, the returned credential set is committed to the store
\* and the call is re-issued exactly once, carrying the returned access token.
C1_RefreshAndRetryOnce ==
    /\ []C1_Once
    /\ [][C1_Exchange /\ C1_Commit]_vars

\* C1 witness: a view's call was re-issued after its exchange was accepted.
C1_Witness ==
    \E c \in Calls : calls[c].rgen # 0 /\ calls[c].sends = 2 /\ calls[c].kind = "view"

\* (C2, count) no call is transmitted more than twice or refreshed more than once.
C2_Bounded ==
    \A c \in Calls : calls[c].sends <= 2 /\ calls[c].refreshes <= 1

\* (C2, step) an error answer to a call carrying the marker rejects it and
\* starts neither a refresh exchange nor a transmission.
C2_NoSecondRefresh ==
    \A c \in Calls :
        RetriedFails(c) =>
            /\ calls'[c].pc = "rejected"
            /\ calls'[c].refreshes = calls[c].refreshes
            /\ calls'[c].sends = calls[c].sends
            /\ calls'[c].err \in Errors
            /\ gen' = gen

\* C2: a call that fails while already carrying the retried marker triggers no
\* further refresh exchange and is rejected to its caller; whatever the remote
\* answers, a call is transmitted at most twice and causes at most one refresh
\* exchange.
C2_RetriedCallIsFinal ==
    /\ []C2_Bounded
    /\ [][C2_NoSecondRefresh]_vars

\* C2 witness: a re-issued call failed with 401 again and was rejected.
C2_Witness ==
    \E c \in Calls :
        /\ calls[c].pc = "rejected"
        /\ calls[c].sends = 2
        /\ calls[c].refreshes = 1
        /\ IsUnauthorized(calls[c].err)

\* C3: once a refresh exchange triggered by a 401 has failed, the store holds
\* no access token, no refresh token and no principal, whatever the other
\* in-flight calls and their own refresh exchanges do afterwards (until
\* AuthProvider or the login page logs in anew).
C3_NoResidualCredential ==
    hist.forced =>
        /\ store.accessToken = None
        /\ store.refreshToken = None
        /\ store.user = NoUser

\* (C4, no token) a first 401 met with no refresh token in the store.
C4_NoToken ==
    \A c \in Calls :
        First401(c) /\ store.refreshToken = None =>
            /\ calls'[c].pc = "rejected"
            /\ calls'[c].sends = calls[c].sends
            /\ calls'[c].refreshes = 0
            /\ store' = ClearedStore
            /\ persisted' = NoAuthResponse

\* (C4, refused) the refresh exchange made for a call fails.
C4_Refused ==
    \A c \in Calls :
        RefreshRejected(c) =>
            /\ calls'[c].pc = "rejected"
            /\ calls'[c].sends = calls[c].sends
            /\ calls'[c].refreshes = calls[c].refreshes
            /\ calls'[c].err = calls[c].err
            /\ IsUnauthorized(calls'[c].err)
            /\ store' = ClearedStore
            /\ persisted' = NoAuthResponse

\* C4: when a not-yet-retried call fails with 401 and the store holds no
\* refresh token, or the refresh exchange made for it fails, the call is not
\* re-issued, it is rejected with its original 401, and the store (with what
\* it persists) is cleared.
C4_FailedRefreshLogsOut == [][C4_NoToken /\ C4_Refused]_vars

\* C4 witness: one view's call was rejected after its refresh exchange failed,
\* another was rejected with its 401 because the store held no refresh token.
C4_Witness ==
    /\ \E c \in Calls :
        /\ calls[c].kind = "view"
        /\ calls[c].pc = "rejected"
        /\ calls[c].refreshes = 1
        /\ calls[c].sends = 1
        /\ IsUnauthorized(calls[c].err)
    /\ \E c \in Calls :
        /\ calls[c].kind = "view"
        /\ calls[c].pc = "rejected"
        /\ calls[c].refreshes = 0
        /\ calls[c]._retry
        /\ IsUnauthorized(calls[c].err)
    /\ store = ClearedStore
    /\ hist.forced

\* The step in which call c is rejected to its caller with status 401.
C5_Rejected401(c) ==
    /\ calls[c].pc # "rejected"
    /\ calls'[c].pc = "rejected"
    /\ IsUnauthorized(calls'[c].err)

\* C5 as stated: whenever a call is rejected to its caller with status 401
\* (a re-issued call that fails with 401 again included), the store has been
\* cleared by logout at that moment.
C5_Original ==
    [][\A c \in Calls : C5_Rejected401(c) => store' = ClearedStore]_vars

\* C5 amended: a call rejected with 401 without having been re-issued leaves
\* the store cleared; a view's re-issued call that fails with 401 again is
\* rejected with the store and what it persists left as they were (no logout).
C5_Amended ==
    [][\A c \in Calls :
          /\ C5_Rejected401(c) /\ calls'[c].sends = 1 => store' = ClearedStore
          /\ C5_Rejected401(c) /\ calls'[c].sends = 2 /\ calls[c].kind = "view"
                => store' = store /\ persisted' = persisted]_vars

\* C5 witness: a view's re-issued call was rejected with 401 while the store
\* still holds the credential set its refresh obtained.
C5_Witness ==
    \E c \in Calls :
        /\ calls[c].kind = "view"
        /\ calls[c].pc = "rejected"
        /\ calls[c].sends = 2
        /\ IsUnauthorized(calls[c].err)
        /\ HoldsSet(store, calls[c].rgen)

\* (C6, exchange) a first 401 starts the call's own exchange with the token the
\* store holds at that moment and touches no other call.
C6_OwnExchange ==
    \A c \in Calls :
        First401(c) /\ store.refreshToken # None =>
            /\ calls'[c].pc = "refreshing"
            /\ calls'[c].rtok = store.refreshToken
            /\ calls'[c].refreshes = calls[c].refreshes + 1
            /\ calls'[c]._retry
            /\ \A d \in Calls \ {c} : calls'[d] = calls[d]

\* (C6, retry) an accepted exchange re-issues its own call and no other.
C6_OwnRetry ==
    \A c \in Calls :
        RefreshAccepted(c) =>
            /\ calls'[c].pc = "sent"
            /\ \A d \in Calls \ {c} : calls'[d] = calls[d]

\* C6: refresh is not single-flighted and the marker is per call.  Each
\* not-yet-retried call that fails with 401 while the store holds a refresh
\* token starts its own exchange with the token the store holds at that
\* moment, also while other calls are refreshing or already carry the marker;
\* neither that step nor an accepted exchange changes any other call.
C6_IndependentRefresh == [][C6_OwnExchange /\ C6_OwnRetry]_vars

\* C6 witness: every call of the run has its own refresh exchange in flight at
\* the same time.
C6_Witness ==
    /\ \A c \in Calls : calls[c].pc = "refreshing" /\ calls[c].refreshes = 1
    /\ \E c \in Calls : calls[c].kind = "view"

\* C7: the store holds a complete credential set of one response (both tokens
\* and the principal), or none of the three.
C7_CompleteOrNone ==
    \/ store = ClearedStore
    \/ \E g \in Gens : HoldsSet(store, g)

\* C8: a transmitted call carries Bearer t for the access token t the store
\* held when it was transmitted, and no Authorization header when the store
\* held none; this covers the re-issue after a refresh.
C8_BearerIsCurrentToken ==
    \A c \in Calls :
        calls[c].sends > 0 =>
            calls[c].hdr = IF calls[c].sentWith # None
                           THEN Bearer(calls[c].sentWith)
                           ELSE NoHeader

\* C8 witness: a call re-issued with the refreshed token, and a call
\* transmitted without a header.
C8_Witness ==
    /\ \E c \in Calls : calls[c].sends = 2 /\ calls[c].hdr = Bearer(AccessTok(calls[c].rgen))
    /\ \E c \in Calls : calls[c].sends = 1 /\ calls[c].hdr = NoHeader

\* The step in which call c gets an error that is not a 401.
C9_OtherError(c) ==
    /\ calls[c].pc = "sent"
    /\ calls'[c].pc \notin {"sent", "resolved"}
    /\ ~IsUnauthorized(calls'[c].err)

\* C9: an error other than a 401 (another status, or no response) rejects the
\* call with that error, starts no refresh exchange and no transmission, and
\* the interceptor leaves the store as it was.
C9_Only401Refreshes ==
    [][\A c \in Calls :
          C9_OtherError(c) =>
              /\ calls'[c].pc = "rejected"
              /\ calls'[c].err \in Errors
              /\ calls'[c].refreshes = calls[c].refreshes
              /\ calls'[c].sends = calls[c].sends
              /\ gen' = gen
              /\ calls[c].kind = "view" => store' = store /\ persisted' = persisted]_vars

\* C9 witness: a view's call was rejected with a non-401 error, never
\* refreshed, while the store holds a credential set.
C9_Witness ==
    \E c \in Calls :
        /\ calls[c].kind = "view"
        /\ calls[c].pc = "rejected"
        /\ calls[c].err \in Errors
        /\ ~IsUnauthorized(calls[c].err)
        /\ calls[c].refreshes = 0
        /\ calls[c].sends = 1
        /\ store.refreshToken # None

\* (C10, accepted) AuthProvider's exchange is answered with a worker or admin.
C10_Accepted ==
    \A c \in Calls :
        /\ calls[c].kind = "gate"
        /\ calls[c].pc = "sent"
        /\ calls'[c].pc = "resolved"
        /\ calls'[c].data.user.role \in {"worker", "admin"}
        => /\ store' = SetTokens(calls'[c].data.accessToken,
                                 calls'[c].data.refreshToken, calls'[c].data.user)
           /\ persisted' = calls'[c].data
           /\ gate.phase = "mounted" => Rendered'

\* (C10, refused) AuthProvider's exchange is rejected with 401.
C10_Refused ==
    \A c \in Calls :
        /\ calls[c].kind = "gate"
        /\ calls[c].pc # "rejected"
        /\ calls'[c].pc = "rejected"
        /\ IsUnauthorized(calls'[c].err)
        => /\ store' = ClearedStore
           /\ persisted' = NoAuthResponse
           /\ route' = "/login"
           /\ ~Rendered'

\* (C10, never) nothing is rendered while the remote has accepted nothing.
C10_NothingAccepted == ~hist.accepted => ~Rendered

\* C10: when the remote answers AuthProvider's exchange with a privileged
\* principal (worker or admin), the returned set is committed and protected
\* content is rendered; when the exchange is rejected with 401, the store ends
\* cleared, the client is sent to /login and nothing is rendered; and as long
\* as the remote has accepted nothing, protected content is never rendered.
C10_GateScenario ==
    /\ []C10_NothingAccepted
    /\ [][C10_Accepted /\ C10_Refused]_vars

\* C10 witness: one exchange of AuthProvider was answered with a worker, a
\* later one was rejected with 401, and the client ended logged out at /login.
C10_Witness ==
    /\ \E c \in Calls :
        /\ calls[c].kind = "gate"
        /\ calls[c].pc = "resolved"
        /\ calls[c].data.user.role = "worker"
    /\ \E c \in Calls :
        /\ calls[c].kind = "gate"
        /\ calls[c].pc = "rejected"
        /\ IsUnauthorized(calls[c].err)
    /\ store = ClearedStore
    /\ route = "/login"
    /\ gate.phase = "mounted"
    /\ ~gate.checking

\* (C11, step) AuthProvider's exchange is answered with a principal that is
\* neither worker nor admin.
C11_Denied ==
    \A c \in Calls :
        /\ calls[c].kind = "gate"
        /\ calls[c].pc # "resolved"
        /\ calls'[c].pc = "resolved"
        /\ NotPrivileged(calls'[c].data.user.role)
        => /\ store' = ClearedStore
           /\ persisted' = NoAuthResponse
           /\ store'.accessToken # calls'[c].data.accessToken
           /\ route' = "/login?error=unauthorized"
           /\ ~Rendered'

\* C11: when AuthProvider's refresh exchange succeeds but the returned
\* principal's role is neither worker nor admin, the returned credentials are
\* not committed, the store and what it persists end cleared (logout), the
\* client is sent to /login?error=unauthorized, and protected content is not
\* rendered.
C11_UnprivilegedIsLoggedOut == [][C11_Denied]_vars

\* C11 witness: AuthProvider's exchange was answered with a plain user and the
\* client ended logged out on its way to the unauthorized login state.
C11_Witness ==
    /\ \E c \in Calls :
        /\ calls[c].kind = "gate"
        /\ calls[c].pc = "resolved"
        /\ calls[c].data.user.role = "user"
    /\ store = ClearedStore
    /\ persisted = NoAuthResponse
    /\ route = "/login?error=unauthorized"
    /\ gate.phase = "mounted"
    /\ ~gate.checking

\* (C12, step) AuthProvider mounts and the hydrated store has no refresh token.
C12_MountWithoutToken ==
    /\ gate.phase = "init"
    /\ gate'.phase = "mounted"
    /\ Hydrate(store, persisted).refreshToken = None
    => /\ route' = "/login"
       /\ calls' = calls
       /\ gen' = gen
       /\ ~gate'.checking
       /\ ~Rendered'

\* (C12, never) while AuthProvider has issued no exchange and no interceptor
\* refresh of another call has been accepted, nothing is rendered.
C12_NoExchangeNoRender ==
    (\A c \in Calls : calls[c].kind # "gate" /\ calls[c].rgen = 0) => ~Rendered

C13_LoaderWhileChecking ==
    (/\ gate.phase = "mounted"
     /\ \E c \in Calls : calls[c].kind = "gate" /\ calls[c].pc \in {"sent", "refreshing"})
    => gate.checking /\ ~Rendered

\* ------------------------------------------------ steps of a session call
\* The step in which the answer on slot r reaches the page.
Delivered(r) == reqs[r].pc = "answered" /\ reqs'[r].pc = "idle"

\* The step in which a successful answer of an active-session request reaches
\* the page.
PollDelivered(r) == Delivered(r) /\ reqs[r].kind = "getActive" /\ reqs[r].ok

\* The step in which the acknowledgement of an end request reaches the page.
EndAcked(r) == Delivered(r) /\ reqs[r].kind = "end" /\ reqs[r].ok

\* C14: once a poll of the watched session has observed a terminal state (an
\* answer reported the session as ended or failed and cleared the interval),
\* polling has stopped for good: as long as the
\* page stays mounted no interval exists again, so no further poll is issued,
\* and no later answer makes the page hold an active session again.
C14_TerminalStopsPolling ==
    [][(/\ watch = "terminal"
        /\ editor.session.status \in Terminal
        /\ editor'.phase = "mounted")
       => /\ editor'.timer = 0
          /\ ~editor'.session.isActive]_vars

\* (C15, state) while the mounted page holds a session in a non-terminal
\* status, its interval of 5000 ms exists, and a firing issues a poll whenever
\* a request can go out, whatever is in flight.
C15_Polling ==
    /\ (editor.phase = "mounted" /\ editor.session.status \in SessionStatus \ Terminal)
       => editor.timer = PollIntervalMs
    /\ (editor.timer # 0 /\ \E r \in Reqs : reqs[r].pc = "idle")
       => ENABLED (\E r \in Reqs : Tick(r))

\* (C15, step) the interval is cleared only when an answer reports a session
\* that is terminal or none, when the end of the session was acknowledged, or
\* when the page unmounts; a failed poll does not clear it.
C15_StopsOnlyWhenDone ==
    (editor.timer # 0 /\ editor'.timer = 0)
    => \/ editor'.phase = "unmounted"
       \/ \E r \in Reqs : EndAcked(r)
       \/ \E r \in Reqs : PollDelivered(r) /\ ~reqs[r].data.isActive

C16_StatusMovesForward ==
    [][(editor.session # NoSession /\ editor'.session # NoSession)
       => Reach(editor.session.status, editor'.session.status)]_vars

\* C17: after the watch has been stopped (the interval was cleared because the
\* user ended the session, a terminal state was observed, or the page
\* unmounted), the answer of a poll that was still in flight is not applied to
\* the session the page holds; and stopping the watch leaves the requests in
\* flight as they are.
C17_StoppedWatchDiscards ==
    [][/\ \A r \in Reqs :
            (watch \in {"terminal", "ended", "left"} /\ PollDelivered(r))
            => editor'.session = editor.session
       /\ (watch = "on" /\ watch' # "on")
            => \A r \in Reqs : reqs[r].pc = "sent" => reqs'[r] = reqs[r]]_vars

\* C18: no queue-position indicator is rendered for a session whose status is
\* not queued, whatever queuePosition it carries.
C18_QueueIndicatorOnlyWhenQueued ==
    QueueIndicator(editor) => editor.session.status = "queued"

\* C19: the endpoint of a session (address, port, password, connect command)
\* is shown only while the status last observed for it is ready or active, in
\* the editor page and in the dashboard's list of running servers.
C19_EndpointOnlyWhenReady ==
    /\ ConnectionDetails(editor) => editor.session.status \in {"ready", "active"}
    /\ \A s \in dash.runningSessions :
           RunningAddress(dash, s) => s.status \in {"ready", "active"}

\* C20: ending a session never writes a status locally: the session the page
\* holds changes only to what an answer carried, the page marks the session as
\* ending in the step of the click, and the acknowledgement of the end request
\* is not taken as the confirmation: the page keeps polling after it, so that
\* a later poll reports the terminal status.
C20_EndConfirmedByPoll ==
    [][/\ (editor'.session # editor.session /\ editor'.session # NoSession)
            => \E r \in Reqs : Delivered(r) /\ reqs[r].data = editor'.session
       /\ (\E r \in Reqs : reqs[r].pc = "idle" /\ reqs'[r].kind = "end")
            => editor'.ending
       /\ \A r \in Reqs :
            (EndAcked(r) /\ editor.timer # 0) => editor'.timer # 0]_vars

\* The step in which the gate's refresh exchange on slot c is accepted for a
\* privileged principal, so that checkAuth commits the set it returned.
GateCommit(c) ==
    /\ calls[c].kind = "gate"
    /\ calls[c].pc = "sent"
    /\ calls'[c].pc = "resolved"
    /\ ~NotPrivileged(calls'[c].data.user.role)

\* C25: the gate's check comes to rest.  Its own commit of the rotated
\* credential set does not start another check, and no two of its refresh
\* exchanges carrying the same refresh token are in flight together.
C25_GateQuiescent ==
    [][/\ \A c \in Calls : GateCommit(c) => ~RerenderPending'
       /\ \A c, d \in Calls :
            (/\ c # d
             /\ calls'[c].kind = "gate" /\ calls'[c].pc = "sent"
             /\ calls'[d].kind = "gate" /\ calls'[d].pc = "sent")
            => calls'[c].body # calls'[d].body]_vars

\* C26: whenever the gate renders protected content, the principal held by the
\* store has the role worker or admin, also after a commit made by the
\* interceptor's refresh path while the content is displayed.
C26_RenderedIsPrivileged ==
    Rendered => store.user.role \in {"worker", "admin"}

\* The step in which call c is put on the wire (first issue or re-issue).
Transmitted(c) == calls'[c].sends = calls[c].sends + 1

\* C27: no call goes out carrying a bearer token while the store is logged
\* out, and a refresh accepted after a failed refresh has forced logout does
\* not put a credential set back into the store.
C27_NoBearerWhenLoggedOut ==
    [][/\ \A c \in Calls :
            (Transmitted(c) /\ calls'[c].hdr # NoHeader)
            => store'.accessToken # None
       /\ \A c \in Calls :
            (RefreshAccepted(c) /\ hist.forced /\ store = ClearedStore)
            => store' = ClearedStore]_vars

\* The step in which the login callback's principal lookup on slot c settles
\* and its then/catch/finally handlers have run.
LookupSettled(c) ==
    /\ calls[c].kind = "me"
    /\ calls[c].pc \in {"sent", "refreshing"}
    /\ calls'[c].pc \in {"resolved", "rejected"}

\* The lookup on slot c has succeeded for a worker or an admin.
LookupPrivileged(c) ==
    /\ calls'[c].pc = "resolved"
    /\ calls'[c].data.user.role \in {"worker", "admin"}

\* C30: when the OAuth callback has been processed, the store holds a
\* credential set exactly if the principal lookup succeeded with the role
\* worker or admin, and then the dashboard is requested; otherwise the store and
\* the persisted set are cleared and no redirect to the dashboard happens.
C30_CallbackOutcome ==
    [][\A c \in Calls :
         LookupSettled(c) =>
            /\ ~login'.loading
            /\ IF LookupPrivileged(c)
               THEN /\ \E g \in Gens : HoldsSet(store', g)
                    /\ store'.user.role = calls'[c].data.user.role
                    /\ route' = "/dashboard"
               ELSE /\ store' = ClearedStore
                    /\ persisted' = NoAuthResponse
                    /\ login'.error # "none"
                    /\ route' = route
                    /\ route' # "/dashboard"]_vars

\* The lookup answered with a non-privileged role: access is denied and the
\* temporarily installed tokens are gone.
C30_Witness ==
    /\ login.phase = "mounted"
    /\ ~login.loading
    /\ login.error = "denied"
    /\ store = ClearedStore
    /\ \E c \in Calls : calls[c].kind = "me" /\ calls[c].pc = "resolved"

\* C28: once the create response has made the created session the watched
\* session, an answer to an active-session request that is older than the
\* session (it reports none while the remote holds the session live) does
\* not replace it.
C28_CreatedSessionStays ==
    [][\A r \in Reqs :
         (/\ PollDelivered(r)
          /\ editor.phase = "mounted"
          /\ editor.session.isActive
          /\ reqs[r].data = NoSession
          /\ remote[1].status \in SessionStatus \ Terminal)
         => editor'.session = editor.session]_vars

\* An end request for session s is in flight.
EndPending(s, r) ==
    reqs[r].kind = "end" /\ reqs[r].arg = s /\ reqs[r].pc \in {"sent", "answered"}

\* The End button of session s is disabled.
EndDisabled(d, s) == d.endingSession = s

\* C29: in the dashboard's list at most one end request is in flight per
\* session; while it is pending the session's End control is disabled; an
\* acknowledged end removes exactly that session from the list and a failed
\* end leaves the list as it is.
C29_OneEndPerSession ==
    [][/\ \A s \in Ids :
            /\ \A q, r \in Reqs : (EndPending(s, q) /\ EndPending(s, r))' => q = r
            /\ (\E r \in Reqs : EndPending(s, r))' => EndDisabled(dash', s)
       /\ \A r \in Reqs :
            (Delivered(r) /\ reqs[r].kind = "end") =>
                dash'.runningSessions =
                    IF reqs[r].ok
                    THEN {x \in dash.runningSessions : x.id # reqs[r].arg}
                    ELSE dash.runningSessions]_vars

\* The step is an invocation of handleStartSession.
StartRequested == \E r \in Reqs : HandleStartSession(r)

\* C21: when a start is requested with no collection selected, no call goes
\* out, the session, the polling and the starting flag stay as they are, and
\* the user is told that a collection is required.
C21_ValidationBeforeDispatch ==
    [][(StartRequested /\ ~editor.selectedCollectionId) =>
          /\ reqs' = reqs
          /\ remote' = remote
          /\ editor'.session = editor.session
          /\ editor'.timer = editor.timer
          /\ editor'.starting = editor.starting
          /\ ~editor'.starting
          /\ editor'.toast = "Please select a collection"]_vars

\* A start was requested on the start form with no collection selected.
C21_Witness ==
    /\ editor.phase = "mounted"
    /\ ~editor.loading
    /\ ~editor.selectedCollectionId
    /\ editor.toast = "Please select a collection"
    /\ \A r \in Reqs : reqs[r].kind # "createEditor"

\* The step in which the answer to createEditor on slot r reaches the page.
StartRejected(r) == Delivered(r) /\ reqs[r].kind = "createEditor" /\ ~reqs[r].ok

StartSucceeded(r) == Delivered(r) /\ reqs[r].kind = "createEditor" /\ reqs[r].ok

\* What the page shows on a failure.
ErrorToasts ==
    RemoteMessages \cup {"Please select a collection", "Failed to start editor session",
                         "Failed to end session", "Failed to load collections"}

\* C22: when the remote rejects the start, its message is shown as it came,
\* the page's session and polling stay as they were and the starting flag is
\* false again; when the start succeeds the returned session becomes the
\* page's session and is polled.
C22_StartOutcome ==
    [][\A r \in Reqs :
         /\ StartRejected(r) =>
              /\ reqs[r].message # "none" => editor'.toast = reqs[r].message
              /\ editor'.toast \in ErrorToasts
              /\ editor.phase = "mounted" =>
                    /\ editor'.session = editor.session
                    /\ editor'.timer = editor.timer
                    /\ ~editor'.starting
         /\ (StartSucceeded(r) /\ editor.phase = "mounted") =>
              /\ editor'.session = reqs[r].data
              /\ editor'.timer = PollIntervalMs
              /\ ~editor'.starting]_vars

\* The remote's rejection is on screen, the start form is back with no
\* session and no polling.
C22_Witness ==
    /\ editor.phase = "mounted"
    /\ editor.toast \in RemoteMessages
    /\ editor.session = NoSession
    /\ editor.timer = 0
    /\ ~editor.starting

\* C23: nothing is swallowed: every failed call of the page (a poll, a start,
\* an end) puts an error on screen.
C23_NothingSwallowed ==
    [][\A r \in Reqs :
         (Delivered(r) /\ ~reqs[r].ok) => editor'.toast \in ErrorToasts]_vars

\* C24: the page has at most one polling interval; an interval exists, and can
\* fire, only while the page is mounted and holds an active session, and the
\* effect holds every live interval for its cleanup.
C24_TimerScoped ==
    /\ editor.intervals <= 1
    /\ editor.intervals = (IF editor.timer # 0 THEN 1 ELSE 0)
    /\ editor.intervals > 0 => (editor.phase = "mounted" /\ editor.session.isActive)
    /\ (\E r \in Reqs : ENABLED Tick(r)) =>
            (editor.phase = "mounted" /\ editor.session.isActive)

\* The page was left while it polled, and no interval remains.
C24_Witness ==
    /\ watch = "left"
    /\ editor.phase = "unmounted"
    /\ editor.intervals = 0
    /\ \E r \in Reqs : reqs[r].kind = "getActive" /\ reqs[r].pc # "idle"

====
